---------------------------- MODULE Spec2Model ----------------------------
(***************************************************************************)
(* The employee CRUD service of src/app.py: one table "employee" in the    *)
(* default SQLite database, and the five request handlers create, list,    *)
(* get, update and delete.  Every handler but update issues one SQL        *)
(* statement; update issues an UPDATE and then, after a second await, a    *)
(* SELECT, so other requests may run between its two statements.           *)
(***************************************************************************)
EXTENDS Integers, Sequences, FiniteSets, TLC

(* ---------------------------------------------------------------- bounds *)
\* Largest id the model lets the storage engine assign.
MaxId == 2
\* Request handlers that may be in flight at the same time.
Procs == {"p1", "p2"}

(* ------------------------------------------------------------ data model *)
\* An Optional[...] value: None, or Some(v).
None == <<>>
Some(v) == <<v>>

\* The columns of EmployeeIn, i.e. every column of the table but id.
InFields ==
  {"employee_no", "first_name", "last_name", "email", "phone", "branch",
   "job_title", "salary", "date_hired"}

\* The optional columns of EmployeeIn.
OptionalFields == InFields \ {"first_name", "last_name"}

\* A validated request body.  A salary is a float; the model counts it in
\* units of 1e-11, one decimal digit below the ten that Numeric hands back.
EmployeeIn(no, fn, ln, em, ph, br, jt, sal, dh) ==
  [employee_no |-> no, first_name |-> fn, last_name |-> ln, email |-> em,
   phone |-> ph, branch |-> br, job_title |-> jt, salary |-> sal,
   date_hired |-> dh]

EmpAna ==
  EmployeeIn(Some("E1"), "Ana", "Cruz", Some("ana@mdm"), Some("555"),
             Some("North"), Some("Clerk"), Some(30), Some("2020-01-01"))
EmpBen ==
  EmployeeIn(None, "Ben", "Diaz", None, None, None, None, None, None)
EmpCyd ==
  EmployeeIn(Some("E2"), "Cyd", "Eng", None, None, Some(""), None,
             Some(17), None)

\* The request bodies the model sends.
Inputs == {EmpAna, EmpBen, EmpCyd}

\* The path parameter emp_id of get, update and delete.
Ids == 1..MaxId

\* The query parameters of list.
BranchFilters == {None, Some(""), Some("North")}
Limits == {-1, 0, 1}

(* ------------------------------------------------------ storage engine *)
\* {**emp.dict(), "id": id}: the record with its id.
WithId(emp, id) ==
  [f \in InFields \cup {"id"} |-> IF f = "id" THEN id ELSE emp[f]]

\* The ids of the rows of table t.
IdsOf(t) == {r.id : r \in t}

MaxOf(S) == CHOOSE m \in S : \A x \in S : x <= m

NextIdByCount(t) == Cardinality(t) + 1
\* INTEGER PRIMARY KEY in SQLite: a new row gets the largest id in use plus
\* one (1 in an empty table), so the id of a deleted last row is used again.
NextId(t) == IF t = {} THEN 1 ELSE MaxOf(IdsOf(t)) + 1

NoUniqueCheck(t, no, self) == FALSE
\* unique=True on employee_no: a row other than `self` already holds the
\* non-null employee_no `no`.  NULLs never collide.
UniqueViolation(t, no, self) ==
  /\ no # None
  /\ \E r \in t : r.id # self /\ r.employee_no = no

\* employees.insert().values(**emp.dict())
InsertRow(t, emp) == t \cup {WithId(emp, NextId(t))}

UpdateOrInsert(t, id, emp) ==
  IF id \in IdsOf(t)
    THEN {IF r.id = id THEN WithId(emp, r.id) ELSE r : r \in t}
    ELSE t \cup {WithId(emp, id)}
UpdateSkipSalary(t, id, emp) ==
  {IF r.id = id
     THEN [f \in InFields \cup {"id"} |->
             IF f \in {"id", "salary"} THEN r[f] ELSE emp[f]]
     ELSE r : r \in t}
UpdateSetOnly(t, id, emp) ==
  {IF r.id = id
     THEN [f \in InFields \cup {"id"} |->
             IF f = "id" \/ (f \in OptionalFields /\ emp[f] = None)
               THEN r[f] ELSE emp[f]]
     ELSE r : r \in t}
\* employees.update().where(id == emp_id).values(**emp.dict()): every column
\* of EmployeeIn is assigned, None as NULL; id is not among them.
UpdateRows(t, id, emp) ==
  {IF r.id = id THEN WithId(emp, r.id) ELSE r : r \in t}

DeleteNothing(t, id) == t
\* employees.delete().where(id == emp_id)
DeleteRows(t, id) == {r \in t : r.id # id}

SelectFromId(t, id) == {r \in t : r.id >= id}
\* employees.select().where(id == emp_id)
SelectById(t, id) == {r \in t : r.id = id}

\* The Numeric column read back through SQLAlchemy on SQLite: the stored
\* float is formatted with ten decimals ("%.10f") and parsed as a Decimal.
\* In units of 1e-11 that is rounding to the nearest multiple of ten.
ToDecimal(v) == ((v + 5) \div 10) * 10

\* dict(row) through the response model: the row as a response body.
RowOut(r) ==
  [r EXCEPT !.salary = IF r.salary = None THEN None
                       ELSE Some(ToDecimal(r.salary[1]))]

\* The rows of S as a sequence in id order, the order SQLite scans them in.
RECURSIVE InIdOrder(_)
InIdOrder(S) ==
  IF S = {} THEN <<>>
  ELSE LET first == CHOOSE r \in S : \A s \in S : r.id <= s.id
       IN  <<first>> \o InIdOrder(S \ {first})

\* LIMIT n in SQLite: a negative n is no limit at all.
Truncate(s, limit) ==
  IF limit < 0 \/ limit >= Len(s) THEN s ELSE SubSeq(s, 1, limit)

\* employees.select().limit(limit), with the WHERE clause added only when
\* `branch` is truthy: neither None nor the empty string.
ListQuery(t, branch, limit) ==
  LET rows == IF branch # None /\ branch # Some("")
                THEN {r \in t : r.branch = branch}
                ELSE t
  IN  Truncate(InIdOrder(rows), limit)

\* The columns of row r that a request body carries.
Supplied(r) == [f \in InFields |-> r[f]]

\* database.fetch_one: the first row of the result, or nothing.
FetchOne(S) == IF S = {} THEN None ELSE Some(InIdOrder(S)[1])

(* -------------------------------------------------------------- responses *)
Response(status, body) == [status |-> status, body |-> body]

\* create_employee: the body echoes the input with the id the insert
\* returned; a uniqueness violation raises out of database.execute and the
\* framework answers 500.
CreateResponse(t, emp) ==
  IF UniqueViolation(t, emp.employee_no, 0)
    THEN Response(500, None)
    ELSE Response(200, WithId(emp, NextId(t)))

\* list_employees: [dict(r) for r in rows]
ListResponse(t, branch, limit) ==
  Response(200, [i \in DOMAIN ListQuery(t, branch, limit) |->
                   RowOut(ListQuery(t, branch, limit)[i])])

\* get_employee: 404 when fetch_one finds no row, else the row.
GetResponse(t, id) ==
  IF FetchOne(SelectById(t, id)) = None
    THEN Response(404, None)
    ELSE Response(200, RowOut(FetchOne(SelectById(t, id))[1]))

\* update_employee after its UPDATE: the row is read again; 404 when it is
\* not there, else the row as it is now.
UpdateResponse(t, id) ==
  IF FetchOne(SelectById(t, id)) = None
    THEN Response(404, None)
    ELSE Response(200, RowOut(FetchOne(SelectById(t, id))[1]))

\* delete_employee: the acknowledgement names the requested id.
DeleteResponse(id) == Response(200, [deleted_id |-> id])

(* ------------------------------------------------------------------ state *)
VARIABLES
  table,      \* the rows of table "employee"
  pc,         \* per handler: "idle", or "update_select" between the two
              \* statements of update_employee
  req,        \* per handler: the update request it serves; one whose UPDATE
              \* changed a row is kept after the answer, as the record of
              \* who supplied the values the row may hold
  lastWrite,  \* the latest statement that changed the table: the id it wrote
              \* and the update request that ran it ("other": create, delete)
  last        \* the statement just run and the response it led to, until
              \* the response is delivered

vars == <<table, pc, req, lastWrite, last>>

NoReq == [id |-> 0, emp |-> None, wrote |-> FALSE]

\* A statement of a handler: its operation and inputs, whether it found the
\* row it names, and the response (status 0: none yet).
Event(op, id, emp, branch, limit, matched, resp) ==
  [op |-> op, id |-> id, emp |-> emp, branch |-> branch, limit |-> limit,
   matched |-> matched, status |-> resp.status, body |-> resp.body]

NoEvent == Event("none", 0, None, None, 0, FALSE, Response(0, None))

\* The rows the table can hold and the requests a handler can carry.
TypeOK ==
  /\ \A r \in table :
       /\ r.id \in 1..MaxId
       /\ Supplied(r) \in Inputs
  /\ pc \in [Procs -> {"idle", "update_select"}]
  /\ \A p \in Procs :
       \/ req[p] = NoReq
       \/ req[p].id \in Ids /\ req[p].emp \in Inputs /\ req[p].wrote \in BOOLEAN
  /\ lastWrite.id \in 0..MaxId
  /\ lastWrite.by \in Procs \cup {"other"}
  /\ last.op \in {"none", "create", "list", "get", "update_execute",
                   "update_select", "delete"}
  /\ last.status \in {0, 200, 404, 500}

Init ==
  /\ table = {}
  /\ pc = [p \in Procs |-> "idle"]
  /\ req = [p \in Procs |-> NoReq]
  /\ lastWrite = [id |-> 0, by |-> "other"]
  /\ last = NoEvent

\* A request is taken up by a handler that serves no other one.
SomeoneIdle == last = NoEvent /\ \E p \in Procs : pc[p] = "idle"

(* --------------------------------------------------------------- handlers *)
\* POST /api/employees
Create(emp) ==
  /\ SomeoneIdle
  /\ IF UniqueViolation(table, emp.employee_no, 0)
       THEN UNCHANGED <<table, lastWrite>>
       ELSE /\ NextId(table) <= MaxId
            /\ table' = InsertRow(table, emp)
            /\ lastWrite' = [id |-> NextId(table), by |-> "other"]
  /\ last' = Event("create",
                   IF UniqueViolation(table, emp.employee_no, 0)
                     THEN 0 ELSE NextId(table),
                   emp, None, 0, FALSE, CreateResponse(table, emp))
  /\ UNCHANGED <<pc, req>>

\* GET /api/employees?branch=&limit=
List(branch, limit) ==
  /\ SomeoneIdle
  /\ last' = Event("list", 0, None, branch, limit, FALSE,
                   ListResponse(table, branch, limit))
  /\ UNCHANGED <<table, pc, req, lastWrite>>

\* GET /api/employees/{emp_id}
Get(id) ==
  /\ SomeoneIdle
  /\ last' = Event("get", id, None, None, 0, SelectById(table, id) # {},
                   GetResponse(table, id))
  /\ UNCHANGED <<table, pc, req, lastWrite>>

\* PUT /api/employees/{emp_id}, first statement: the UPDATE.  A uniqueness
\* violation raises, which ends the request with a 500.
UpdateExecute(p, id, emp) ==
  /\ last = NoEvent
  /\ pc[p] = "idle"
  /\ LET matched == SelectById(table, id) # {}
     IN  IF matched /\ UniqueViolation(table, emp.employee_no, id)
           THEN /\ UNCHANGED <<table, pc, req, lastWrite>>
                /\ last' = Event("update_execute", id, emp, None, 0, matched,
                                 Response(500, None))
           ELSE /\ table' = UpdateRows(table, id, emp)
                /\ pc' = [pc EXCEPT ![p] = "update_select"]
                /\ req' = [req EXCEPT ![p] =
                             [id |-> id, emp |-> emp, wrote |-> matched]]
                /\ lastWrite' = IF matched THEN [id |-> id, by |-> p]
                                            ELSE lastWrite
                /\ last' = Event("update_execute", id, emp, None, 0, matched,
                                 Response(0, None))

\* PUT /api/employees/{emp_id}, second statement: the SELECT, and the answer.
UpdateSelect(p) ==
  /\ last = NoEvent
  /\ pc[p] = "update_select"
  /\ last' = Event("update_select", req[p].id, req[p].emp, None, 0,
                   req[p].wrote, UpdateResponse(table, req[p].id))
  /\ pc' = [pc EXCEPT ![p] = "idle"]
  /\ req' = IF req[p].wrote THEN req ELSE [req EXCEPT ![p] = NoReq]
  /\ UNCHANGED <<table, lastWrite>>

\* DELETE /api/employees/{emp_id}
Delete(id) ==
  /\ SomeoneIdle
  /\ table' = DeleteRows(table, id)
  /\ lastWrite' = IF SelectById(table, id) # {}
                    THEN [id |-> id, by |-> "other"]
                    ELSE lastWrite
  /\ last' = Event("delete", id, None, None, 0, SelectById(table, id) # {},
                   DeleteResponse(id))
  /\ UNCHANGED <<pc, req>>

\* The response, if any, goes out to the client; the next statement runs.
Respond ==
  /\ last # NoEvent
  /\ last' = NoEvent
  /\ UNCHANGED <<table, pc, req, lastWrite>>

Next ==
  \/ \E emp \in Inputs : Create(emp)
  \/ \E branch \in BranchFilters, limit \in Limits : List(branch, limit)
  \/ \E id \in Ids : Get(id)
  \/ \E p \in Procs, id \in Ids, emp \in Inputs : UpdateExecute(p, id, emp)
  \/ \E p \in Procs : UpdateSelect(p)
  \/ \E id \in Ids : Delete(id)
  \/ Respond

Spec == Init /\ [][Next]_vars

(* ------------------------------------------------------------ properties *)
RowsWithId(id) == {r \in table : r.id = id}

\* C1: in every reachable state no two stored rows share an id, and no two
\* stored rows share a non-null employee_no.
C1_UniqueIdAndEmployeeNo ==
  \A r1, r2 \in table :
    r1 # r2 =>
      /\ r1.id # r2.id
      /\ r1.employee_no # None => r1.employee_no # r2.employee_no

\* C1 witness: two rows are stored and a request that would have duplicated
\* an employee_no has just been refused.
C1_Witness ==
  /\ Cardinality(table) = 2
  /\ last.op \in {"create", "update_execute"}
  /\ last.status = 500

\* C2: a create whose employee_no is already stored does not answer 200 and
\* leaves the table as it was.
C2_DuplicateCreateFails ==
  [][(/\ last'.op = "create"
      /\ last'.emp.employee_no # None
      /\ \E r \in table : r.employee_no = last'.emp.employee_no)
     => (last'.status # 200 /\ table' = table)]_vars

\* C2 witness: a create was refused while the row holding its employee_no
\* is stored.
C2_Witness ==
  /\ last.op = "create"
  /\ last.status = 500
  /\ \E r \in table : r.employee_no = last.emp.employee_no

\* C3 (as claimed): right after a successful create, get-by-id on the
\* returned id answers 200 with the very record the create returned.
C3_CreateThenGetIdentical ==
  (last.op = "create" /\ last.status = 200)
    => GetResponse(table, last.body.id) = Response(200, last.body)

\* C4 (as claimed): list returns only rows whose branch equals the supplied
\* filter, at most `limit` of them (none for a negative limit), and leaves
\* the table unchanged.
C4_ListFilterAndLimit ==
  [][last'.op = "list"
     => /\ last'.branch # None
           => \A i \in DOMAIN last'.body : last'.body[i].branch = last'.branch
        /\ Len(last'.body) <= (IF last'.limit < 0 THEN 0 ELSE last'.limit)
        /\ table' = table]_vars

\* C5: the UPDATE of an id no row has leaves the table as it was, the
\* re-read that follows it answers 404, and so does the update's SELECT
\* whenever the row is still absent when it runs.
C5_UpdateAbsentNotFound ==
  [][/\ (last'.op = "update_execute" /\ RowsWithId(last'.id) = {})
          => /\ table' = table
             /\ UpdateResponse(table', last'.id).status = 404
     /\ (/\ last'.op = "update_select"
         /\ ~last'.matched
         /\ RowsWithId(last'.id) = {})
          => /\ last'.status = 404
             /\ last'.body = None
             /\ table' = table]_vars

\* C5 witness: an update of an absent id has answered 404.
C5_Witness ==
  /\ last.op = "update_select"
  /\ ~last.matched
  /\ last.status = 404
  /\ RowsWithId(last.id) = {}

\* C6: an UPDATE that matched a row and was not refused replaces that row by
\* the supplied values under the same id, None where the request sets
\* nothing, and changes no other row.
C6_UpdateReplacesAllFields ==
  [][(last'.op = "update_execute" /\ last'.matched /\ last'.status # 500)
     => \E old \in table :
          /\ old.id = last'.id
          /\ table' =
               (table \ {old}) \cup
                 {[f \in InFields \cup {"id"} |->
                     IF f = "id" THEN old.id ELSE last'.emp[f]]}]_vars

\* C6 witness: a row has just been overwritten by the body that sets only
\* the two names, and its optional columns are all null.
C6_Witness ==
  /\ last.op = "update_execute"
  /\ last.matched
  /\ last.emp = EmpBen
  /\ \E r \in RowsWithId(last.id) : \A f \in OptionalFields : r[f] = None

\* C7: delete answers 200 {deleted_id: id} whether or not the row exists,
\* leaves no row with that id and every other row as it was; a second delete
\* gives the same answer and changes nothing.
C7_DeleteIdempotent ==
  [][last'.op = "delete"
     => /\ last'.status = 200
        /\ last'.body = [deleted_id |-> last'.id]
        /\ table' = {r \in table : r.id # last'.id}
        /\ DeleteResponse(last'.id) = Response(last'.status, last'.body)
        /\ DeleteRows(table', last'.id) = table']_vars

\* C7 witness: a delete found no row to delete, among other rows, and
\* answered all the same.
C7_Witness ==
  /\ last.op = "delete"
  /\ ~last.matched
  /\ last.status = 200
  /\ table # {}

\* C8: get answers 404 exactly when no row has the id and otherwise that
\* row; right after a delete, a get of the deleted id answers 404.
C8_GetNotFoundIffAbsent ==
  /\ last.op = "get"
       => /\ last.status = 404 <=> RowsWithId(last.id) = {}
          /\ last.status # 404
               => /\ last.status = 200
                  /\ \E r \in RowsWithId(last.id) : last.body = RowOut(r)
  /\ last.op = "delete" => GetResponse(table, last.id) = Response(404, None)

\* C8 witness: a get of an id no row has answered 404 while other rows are
\* stored.
C8_Witness ==
  /\ last.op = "get"
  /\ last.status = 404
  /\ table # {}

\* C9 (as claimed): an update whose UPDATE matched a row answers 200 with
\* the values it supplied, as the table hands them back, under its id.
C9_UpdateAnswersOwnValues ==
  (last.op = "update_select" /\ last.matched)
    => /\ last.status = 200
       /\ last.body = RowOut(WithId(last.emp, last.id))

\* C10: when two update requests have both run their UPDATE on one row and
\* no one else has written since, the row holds the values of one of the
\* two in every column, never some of each.
C10_NoFieldMixing ==
  \A p, q \in Procs :
    (/\ p # q
     /\ req[p].wrote /\ req[q].wrote
     /\ req[p].id = req[q].id
     /\ lastWrite.id = req[p].id
     /\ lastWrite.by \in {p, q})
    => /\ Cardinality(RowsWithId(req[p].id)) = 1
       /\ \A r \in RowsWithId(req[p].id) :
            Supplied(r) \in {req[p].emp, req[q].emp}

\* C10 witness: two updates of one row with different values have both
\* completed, and the one that answered last read back the values of the
\* other, so the two did overlap.
C10_Witness ==
  \E p, q \in Procs :
    /\ p # q
    /\ pc[p] = "idle" /\ pc[q] = "idle"
    /\ req[p].wrote /\ req[q].wrote
    /\ req[p].id = req[q].id
    /\ req[p].emp # req[q].emp
    /\ lastWrite = [id |-> req[q].id, by |-> q]
    /\ last.op = "update_select"
    /\ last.emp = req[p].emp
    /\ last.body = RowOut(WithId(req[q].emp, req[q].id))

=============================================================================
